---- MODULE Spec2Model ----
(***************************************************************************)
(* Model of app.py: a Streamlit chat page that forwards a dish request to  *)
(* a CrewAI crew backed by a Gemini model.                                 *)
(*                                                                         *)
(* A session is one browser session: its st.session_state, its widgets     *)
(* and the position of its current script run.  All sessions of one        *)
(* server process share st.secrets and os.environ.  Every script run goes  *)
(* top to bottom through app.py:137-184; get_chef_recipe (app.py:35-128)   *)
(* is split at the points where it reads or writes os.environ so that      *)
(* script runs of different sessions interleave there.                     *)
(***************************************************************************)
EXTENDS Integers, Sequences, FiniteSets, TLC

\* ---------------------------------------------------------------- bounds
\* Utterances submitted in one behaviour, over all sessions.
MaxTurns == 2

\* ---------------------------------------------------------------- values
\* Python's None; also "key not in os.environ" / "key not in st.secrets".
None == "<None>"

AllSessions == {1, 2}

\* Values of GOOGLE_API_KEY in st.secrets: missing, empty, a key.
SecretValues == {None, "", "AIzaSyA"}

\* Values of the GOOGLE_API_KEY slot of os.environ before any call: absent,
\* empty, equal to the credential, different from the credential.
EnvValues == {None, "", "AIzaSyA", "AIzaSyB"}

\* Utterances typed into st.chat_input (a submission is never empty).
Prompts == {"Jollof Rice", "hi"}

\* Texts a finished crew can hand back, with and without surrounding blanks.
Results == {"Hello!", "  Hello there!  \n", ""}

\* Places in the try block where a fault can be raised.
SetupStages == {"ChatGoogleGenerativeAI", "Agent", "Task", "Crew"}
KickoffStage == "kickoff"

\* Classes of the faults raised there; all derive from Exception.
ExceptionSubclasses == {"ValueError", "AuthenticationError"}

NoException == [type |-> None, stage |-> None]

\* What the try block can do: finish with a text, or raise at some stage.
TryOutcomes ==
    [ok : {TRUE}, raw : Results, stage : {None}, type : {None}]
    \cup [ok : {FALSE}, raw : {None}, stage : SetupStages \cup {KickoffStage},
          type : ExceptionSubclasses]

\* ---------------------------------------------------------------- state
VARIABLES
    sessions,                     \* sessions connected to the server process
    secrets,                      \* st.secrets.get("GOOGLE_API_KEY")
    environ,                      \* os.environ slot GOOGLE_API_KEY
    has_messages,                 \* "messages" in st.session_state
    messages,                     \* st.session_state.messages
    pc,                           \* position of the session's script run
    prompt,                       \* value of st.chat_input in the last run
    warning_shown,                \* st.warning of app.py:160 is on the page
    input_shown,                  \* the chat input is on the page
    button_shown,                 \* the sidebar button is on the page
    api_key,                      \* get_chef_recipe parameter
    original_google_api_key_env,  \* app.py:36
    exc,                          \* exception in flight in get_chef_recipe
    result,                       \* CrewOutput of kickoff, app.py:107
    ai_response,                  \* value returned to app.py:175
    st_error_shown,               \* st.error of app.py:118 is on the page
    escaped,                      \* an exception left get_chef_recipe
    \* history variables
    env_initial,                  \* environ before any invocation
    env_at_entry,                 \* environ when the invocation started
    env_seen,                     \* environ as read by the remote call
    env_writes,                   \* assignments to and deletions of the slot
    pre_messages,                 \* transcript when the last event arrived
    last_event,                   \* the last widget event of the session
    setup_ok,                     \* the invocation got as far as kickoff
    kickoffs,                     \* remote calls of the current invocation
    remote_calls,                 \* remote calls of the session
    submitted,                    \* utterances submitted by the session
    outcomes                      \* per invocation: "ok" / "failed"

procVars == <<sessions, secrets, env_initial>>
pageVars == <<has_messages, messages, prompt, warning_shown, input_shown,
              button_shown, pre_messages, last_event, submitted>>
handlerVars == <<api_key, original_google_api_key_env, exc, result,
                 ai_response, st_error_shown, escaped>>
historyVars == <<env_at_entry, env_seen, setup_ok, kickoffs, remote_calls,
                 outcomes>>
envVars == <<environ, env_writes>>
vars == <<procVars, envVars, pc, pageVars, handlerVars, historyVars>>

\* ---------------------------------------------------------------- helpers
\* app.py:138, the transcript a new session starts with.
InitialMessages ==
    << [role |-> "assistant",
        content |-> "What dish would you like to learn how to cook today?"] >>

ClearedMessagesKeepsLast(old) == << old[Len(old)] >>

\* app.py:180, the transcript the Clear button installs.
ClearedMessages(old) ==
    << [role |-> "assistant",
        content |-> "What dish would you like to learn how to cook today?"] >>

UserTurnAsAssistant(p) == [role |-> "assistant", content |-> p]

\* app.py:169
UserTurn(p) == [role |-> "user", content |-> p]

AssistantTurnAsUser(text) == [role |-> "user", content |-> text]

\* app.py:177
AssistantTurn(text) == [role |-> "assistant", content |-> text]

KeyIsNone(k) == k = None

\* app.py:159 and 164, `not google_api_key_from_secrets`.
KeyMissing(k) == k = None \/ k = ""

CatchesValueErrorOnly(e) == e.type = "ValueError"

\* app.py:112, `except Exception`.
Catches(e) == e.type \in ExceptionSubclasses

ErrorMessage(e) == e.type

\* app.py:119, the value returned from the except clause.
ExceptReturn(e) == "Sorry, an error occurred during processing."

AfterExceptRetry(e) ==
    IF e.stage = KickoffStage THEN "h_try" ELSE "h_finally"

\* app.py:119-120, where control goes from the except clause: the return
\* runs the finally block.
AfterExcept(e) == "h_finally"

StrOrApology(o) ==
    IF o.raw = "" THEN "Sorry, an error occurred during processing."
    ELSE o.raw

\* app.py:110, str(result): a CrewOutput prints as its raw text.
Str(o) == o.raw

FinallyPlanNoElse(original, current, key) ==
    IF original = None
    THEN IF current = key THEN "del" ELSE "keep"
    ELSE "keep"

\* app.py:122-127, what the finally block does to the slot.
FinallyPlan(original, current, key) ==
    IF original = None
    THEN IF current = key THEN "del" ELSE "keep"
    ELSE "set"

TotalSubmitted == submitted[1] + submitted[2]

\* The script run is inside get_chef_recipe.
InHandler(s) ==
    pc[s] \in {"h_save", "h_set", "h_try", "h_except", "h_finally", "h_del"}

\* ---------------------------------------------------------------- Init
InitFor(S) ==
    /\ sessions = S
    /\ secrets \in SecretValues
    /\ environ \in EnvValues
    /\ env_initial = environ
    /\ env_writes = 0
    /\ has_messages = [s \in AllSessions |-> FALSE]
    /\ messages = [s \in AllSessions |-> << >>]
    /\ pc = [s \in AllSessions |-> "idle"]
    /\ prompt = [s \in AllSessions |-> None]
    /\ warning_shown = [s \in AllSessions |-> FALSE]
    /\ input_shown = [s \in AllSessions |-> FALSE]
    /\ button_shown = [s \in AllSessions |-> FALSE]
    /\ api_key = [s \in AllSessions |-> None]
    /\ original_google_api_key_env = [s \in AllSessions |-> None]
    /\ exc = [s \in AllSessions |-> NoException]
    /\ result = [s \in AllSessions |-> [raw |-> None]]
    /\ ai_response = [s \in AllSessions |-> None]
    /\ st_error_shown = [s \in AllSessions |-> FALSE]
    /\ escaped = [s \in AllSessions |-> FALSE]
    /\ env_at_entry = [s \in AllSessions |-> None]
    /\ env_seen = [s \in AllSessions |-> None]
    /\ pre_messages = [s \in AllSessions |-> << >>]
    /\ last_event = [s \in AllSessions |-> None]
    /\ setup_ok = [s \in AllSessions |-> FALSE]
    /\ kickoffs = [s \in AllSessions |-> 0]
    /\ remote_calls = [s \in AllSessions |-> 0]
    /\ submitted = [s \in AllSessions |-> 0]
    /\ outcomes = [s \in AllSessions |-> << >>]

\* One user session.
Init == InitFor({1})

\* Two user sessions served by the same process.
InitShared == InitFor(AllSessions)

\* ---------------------------------------------------------------- script
\* app.py:137-138, the transcript a script run works on.
Seeded(s) == IF has_messages[s] THEN messages[s] ELSE InitialMessages

\* What every event does first: a new script run wipes the page.
BeginRun(s, event, p) ==
    /\ s \in sessions
    /\ pc[s] = "idle"
    /\ has_messages' = [has_messages EXCEPT ![s] = TRUE]
    /\ pre_messages' = [pre_messages EXCEPT ![s] = Seeded(s)]
    /\ last_event' = [last_event EXCEPT ![s] = event]
    /\ prompt' = [prompt EXCEPT ![s] = p]
    /\ ai_response' = [ai_response EXCEPT ![s] = None]
    /\ st_error_shown' = [st_error_shown EXCEPT ![s] = FALSE]
    /\ escaped' = [escaped EXCEPT ![s] = FALSE]
    /\ exc' = [exc EXCEPT ![s] = NoException]
    /\ warning_shown' = [warning_shown EXCEPT ![s] = KeyMissing(secrets)]

\* A page load or a menu rerun: app.py:137-184 with no widget event.  Without
\* a key the run stops at app.py:161 before any widget is created.
Load(s) ==
    /\ BeginRun(s, "load", None)
    /\ messages' = [messages EXCEPT ![s] = Seeded(s)]
    /\ input_shown' = [input_shown EXCEPT ![s] = ~KeyMissing(secrets)]
    /\ button_shown' = [button_shown EXCEPT ![s] = ~KeyMissing(secrets)]
    /\ UNCHANGED <<procVars, envVars, pc, submitted, api_key,
                   original_google_api_key_env, result, historyVars>>

\* A click on "Clear Chat History": app.py:137-178 with no prompt, then
\* app.py:179-181 resets the transcript and st.rerun() runs the script again.
ClearChat(s) ==
    /\ button_shown[s]
    /\ BeginRun(s, "clear", None)
    /\ messages' = [messages EXCEPT ![s] =
                        IF KeyMissing(secrets) THEN Seeded(s)
                        ELSE ClearedMessages(Seeded(s))]
    /\ input_shown' = [input_shown EXCEPT ![s] = ~KeyMissing(secrets)]
    /\ button_shown' = [button_shown EXCEPT ![s] = ~KeyMissing(secrets)]
    /\ UNCHANGED <<procVars, envVars, pc, submitted, api_key,
                   original_google_api_key_env, result, historyVars>>

\* An utterance submitted in the chat input: app.py:137-175 up to the call
\* get_chef_recipe(prompt, google_api_key_from_secrets).
Submit(s) ==
    /\ input_shown[s]
    /\ TotalSubmitted < MaxTurns
    /\ \E p \in Prompts :
        /\ BeginRun(s, "submit", p)
        /\ IF KeyMissing(secrets)
           THEN /\ messages' = [messages EXCEPT ![s] = Seeded(s)]
                /\ input_shown' = [input_shown EXCEPT ![s] = FALSE]
                /\ UNCHANGED <<pc, api_key, env_at_entry>>
           ELSE /\ messages' = [messages EXCEPT
                                    ![s] = Append(Seeded(s), UserTurn(p))]
                /\ input_shown' = [input_shown EXCEPT ![s] = TRUE]
                /\ api_key' = [api_key EXCEPT ![s] = secrets]
                /\ env_at_entry' = [env_at_entry EXCEPT ![s] = environ]
                /\ pc' = [pc EXCEPT ![s] = "h_save"]
    /\ button_shown' = [button_shown EXCEPT ![s] = FALSE]
    /\ submitted' = [submitted EXCEPT ![s] = @ + 1]
    /\ UNCHANGED <<procVars, envVars, original_google_api_key_env,
                   result, env_seen, setup_ok, kickoffs, remote_calls,
                   outcomes>>

\* ---------------------------------------------------------------- handler
\* app.py:36
SaveEnv(s) ==
    /\ pc[s] = "h_save"
    /\ original_google_api_key_env' =
           [original_google_api_key_env EXCEPT ![s] = environ]
    /\ pc' = [pc EXCEPT ![s] = "h_set"]
    /\ UNCHANGED <<procVars, envVars, pageVars, api_key, exc, result,
                   ai_response, st_error_shown, escaped, historyVars>>

\* app.py:37
SetEnv(s) ==
    /\ pc[s] = "h_set"
    /\ environ' = api_key[s]
    /\ env_writes' = env_writes + 1
    /\ pc' = [pc EXCEPT ![s] = "h_try"]
    /\ UNCHANGED <<procVars, pageVars, handlerVars, historyVars>>

\* app.py:40-110: build the model client, the agent, the task and the crew,
\* then the one blocking kickoff, which reads the credential from os.environ.
\* Any constructor and the kickoff may raise.
TryBlock(s) ==
    /\ pc[s] = "h_try"
    /\ \E o \in TryOutcomes :
        LET reached == o.ok \/ o.stage = KickoffStage
            e == [type |-> o.type, stage |-> o.stage]
            r == [raw |-> o.raw]
        IN  /\ setup_ok' = [setup_ok EXCEPT ![s] = reached]
            /\ kickoffs' = [kickoffs EXCEPT
                                ![s] = @ + IF reached THEN 1 ELSE 0]
            /\ remote_calls' = [remote_calls EXCEPT
                                    ![s] = @ + IF reached THEN 1 ELSE 0]
            /\ env_seen' = [env_seen EXCEPT
                                ![s] = IF reached THEN environ ELSE @]
            /\ outcomes' = [outcomes EXCEPT
                                ![s] = Append(@, IF o.ok THEN "ok"
                                                 ELSE "failed")]
            /\ IF o.ok
               THEN /\ result' = [result EXCEPT ![s] = r]
                    /\ ai_response' = [ai_response EXCEPT ![s] = Str(r)]
                    /\ pc' = [pc EXCEPT ![s] = "h_finally"]
                    /\ UNCHANGED exc
               ELSE /\ exc' = [exc EXCEPT ![s] = e]
                    /\ pc' = [pc EXCEPT ![s] =
                                  IF Catches(e) THEN "h_except"
                                  ELSE "h_finally"]
                    /\ UNCHANGED <<result, ai_response>>
    /\ UNCHANGED <<procVars, envVars, pageVars, api_key,
                   original_google_api_key_env, st_error_shown, escaped,
                   env_at_entry>>

\* app.py:112-119: log, st.error, return the fixed sentence; the name e is
\* unbound when the clause ends.
Except(s) ==
    /\ pc[s] = "h_except"
    /\ st_error_shown' = [st_error_shown EXCEPT ![s] = TRUE]
    /\ ai_response' = [ai_response EXCEPT ![s] = ExceptReturn(exc[s])]
    /\ exc' = [exc EXCEPT ![s] = NoException]
    /\ pc' = [pc EXCEPT ![s] = AfterExcept(exc[s])]
    /\ UNCHANGED <<procVars, envVars, pageVars, api_key,
                   original_google_api_key_env, result, escaped,
                   historyVars>>

\* Leaving get_chef_recipe from its finally block: back to app.py:175 with
\* the return value, or out of the script run with the exception in flight.
Leave(s, e) ==
    /\ escaped' = [escaped EXCEPT ![s] = (e # NoException)]
    /\ exc' = [exc EXCEPT ![s] = e]
    /\ pc' = [pc EXCEPT ![s] = IF e # NoException THEN "idle" ELSE "h_return"]

\* app.py:120-123 and 126-128: test the saved value and the slot; put the
\* saved value back, or go on to the deletion.
Finally(s) ==
    /\ pc[s] = "h_finally"
    /\ LET plan == FinallyPlan(original_google_api_key_env[s], environ,
                               api_key[s])
       IN  /\ environ' = IF plan = "set"
                         THEN original_google_api_key_env[s] ELSE environ
           /\ env_writes' = env_writes + IF plan = "set" THEN 1 ELSE 0
           /\ IF plan = "del"
              THEN /\ pc' = [pc EXCEPT ![s] = "h_del"]
                   /\ UNCHANGED <<exc, escaped>>
              ELSE Leave(s, exc[s])
    /\ UNCHANGED <<procVars, pageVars, api_key, original_google_api_key_env,
                   result, ai_response, st_error_shown, historyVars>>

\* app.py:124, del os.environ["GOOGLE_API_KEY"]: a KeyError when the slot is
\* no longer there.
DelEnv(s) ==
    /\ pc[s] = "h_del"
    /\ IF environ # None
       THEN /\ environ' = None
            /\ env_writes' = env_writes + 1
            /\ Leave(s, exc[s])
       ELSE /\ UNCHANGED envVars
            /\ Leave(s, [type |-> "KeyError", stage |-> "finally"])
    /\ UNCHANGED <<procVars, pageVars, api_key, original_google_api_key_env,
                   result, ai_response, st_error_shown, historyVars>>

\* app.py:176-184: show the reply, append the assistant turn, create the
\* sidebar button (not clicked in this run); the script run ends.
AppendAssistant(s) ==
    /\ pc[s] = "h_return"
    /\ messages' = [messages EXCEPT
                        ![s] = Append(@, AssistantTurn(ai_response[s]))]
    /\ button_shown' = [button_shown EXCEPT ![s] = TRUE]
    /\ api_key' = [api_key EXCEPT ![s] = None]
    /\ original_google_api_key_env' =
           [original_google_api_key_env EXCEPT ![s] = None]
    /\ result' = [result EXCEPT ![s] = [raw |-> None]]
    /\ env_at_entry' = [env_at_entry EXCEPT ![s] = None]
    /\ env_seen' = [env_seen EXCEPT ![s] = None]
    /\ setup_ok' = [setup_ok EXCEPT ![s] = FALSE]
    /\ kickoffs' = [kickoffs EXCEPT ![s] = 0]
    /\ pc' = [pc EXCEPT ![s] = "idle"]
    /\ UNCHANGED <<procVars, envVars, has_messages, prompt, warning_shown,
                   input_shown, pre_messages, last_event, submitted, exc,
                   ai_response, st_error_shown, escaped, remote_calls,
                   outcomes>>

\* ---------------------------------------------------------------- spec
Next ==
    \E s \in AllSessions :
        \/ Load(s)
        \/ ClearChat(s)
        \/ Submit(s)
        \/ SaveEnv(s)
        \/ SetEnv(s)
        \/ TryBlock(s)
        \/ Except(s)
        \/ Finally(s)
        \/ DelEnv(s)
        \/ AppendAssistant(s)

\* One session: the single thread of control of section 5.
Spec == Init /\ [][Next]_vars

\* Two sessions whose script runs interleave in one process.
SpecShared == InitShared /\ [][Next]_vars

\* ---------------------------------------------------------------- claims
LastOutcome(s) ==
    IF outcomes[s] = << >> THEN None ELSE outcomes[s][Len(outcomes[s])]

\* get_chef_recipe has handed its value back to app.py:175.
Returned(s) == pc[s] = "h_return"

\* C1: with one session, whatever the slot held when get_chef_recipe was
\* called (absent, empty, the credential itself, another key) and whether
\* the remote call succeeded or raised, the slot holds exactly that again
\* once the function has returned.
C1_SlotRestored ==
    \A s \in AllSessions :
        (Returned(s) \/ escaped[s]) => environ = env_at_entry[s]

\* C1 witness: a failed call has returned, the slot was absent before it and
\* has been written and deleted in between.
C1_Witness ==
    /\ Returned(1)
    /\ env_at_entry[1] = None
    /\ LastOutcome(1) = "failed"
    /\ env_writes >= 2

\* C2: with interleaved invocations of two sessions, whenever no invocation
\* is in progress the slot is as it was before the first one started, and
\* the remote call of each invocation reads the credential that invocation
\* exported.
C2_NoLockNeeded ==
    /\ (\A s \in AllSessions : ~InHandler(s)) => environ = env_initial
    /\ \A s \in AllSessions :
           (InHandler(s) /\ kickoffs[s] > 0) => env_seen[s] = api_key[s]

\* C3: whatever the try block does (a result, or a fault of any class at any
\* stage from model construction to kickoff), no exception leaves
\* get_chef_recipe and what it returns is a string.
C3_Total ==
    \A s \in AllSessions :
        /\ ~escaped[s]
        /\ Returned(s) => ai_response[s] # None

\* C3 witness: the function has returned although a constructor raised
\* before the kickoff.
C3_Witness ==
    /\ Returned(1)
    /\ LastOutcome(1) = "failed"
    /\ ~setup_ok[1]
    /\ st_error_shown[1]

\* C4: when anything in the try block raised, the function returns exactly
\* "Sorry, an error occurred during processing.".
C4_FailureSentence ==
    \A s \in AllSessions :
        (Returned(s) /\ LastOutcome(s) = "failed")
            => ai_response[s] = "Sorry, an error occurred during processing."

\* C4 witness: the kickoff raised for the utterance "Jollof Rice" and the
\* function has returned.
C4_Witness ==
    /\ Returned(1)
    /\ LastOutcome(1) = "failed"
    /\ setup_ok[1]
    /\ prompt[1] = "Jollof Rice"

\* C5: when the remote call succeeded, the function returns the raw text of
\* the provider's result, character for character.
C5_Verbatim ==
    \A s \in AllSessions :
        (Returned(s) /\ LastOutcome(s) = "ok")
            => ai_response[s] = result[s].raw

\* C5 witness: a result with leading and trailing blanks has been returned.
C5_Witness ==
    /\ Returned(1)
    /\ LastOutcome(1) = "ok"
    /\ result[1].raw = "  Hello there!  \n"

\* C6: a submitted utterance first appends the user turn, before the handler
\* runs, and after the handler returned the assistant turn with the returned
\* value: the transcript is the earlier one plus exactly these two turns.
C6_TwoTurns ==
    \A s \in AllSessions :
        /\ (InHandler(s) \/ Returned(s))
             => messages[s] = pre_messages[s]
                    \o << [role |-> "user", content |-> prompt[s]] >>
        /\ (pc[s] = "idle" /\ last_event[s] = "submit")
             => /\ messages[s] = pre_messages[s]
                       \o << [role |-> "user", content |-> prompt[s]],
                             [role |-> "assistant",
                              content |-> ai_response[s]] >>
                /\ Len(messages[s]) = Len(pre_messages[s]) + 2
                /\ ai_response[s] # None

\* C6 witness: a second utterance has been handled on top of an earlier
\* exchange.
C6_Witness ==
    /\ pc[1] = "idle"
    /\ last_event[1] = "submit"
    /\ Len(pre_messages[1]) = 3
    /\ Len(messages[1]) = 5

\* C7: after "Clear Chat History" the transcript is the single assistant
\* turn with the greeting the session was initialised with, whatever it held
\* before.
C7_ClearResets ==
    \A s \in AllSessions :
        (pc[s] = "idle" /\ last_event[s] = "clear")
            => /\ Len(messages[s]) = 1
               /\ messages[s] = InitialMessages

\* C7 witness: a transcript of five turns has been cleared.
C7_Witness ==
    /\ pc[1] = "idle"
    /\ last_event[1] = "clear"
    /\ Len(pre_messages[1]) = 5

\* C8: when the secret is missing or empty, every script run stops at the
\* warning: no input field and no button appear, no user turn is appended,
\* get_chef_recipe is never entered and the slot is never written.
C8_NoKeyHalts ==
    (secrets = None \/ secrets = "")
        => /\ environ = env_initial
           /\ env_writes = 0
           /\ \A s \in AllSessions :
                /\ pc[s] = "idle"
                /\ ~input_shown[s]
                /\ ~button_shown[s]
                /\ submitted[s] = 0
                /\ remote_calls[s] = 0
                /\ has_messages[s] => warning_shown[s]
                /\ \A i \in 1..Len(messages[s]) : messages[s][i].role # "user"

\* C8 witness: a script run has finished with the warning for an empty
\* secret.
C8_Witness ==
    /\ secrets = ""
    /\ has_messages[1]
    /\ warning_shown[1]
    /\ pc[1] = "idle"

\* C9: after a turn whose call failed the transcript ends with the user turn
\* and the apology turn, the input field is there and a further utterance
\* can be submitted, and the invocation it starts begins from scratch:
\* nothing saved, nothing raised, no remote call made yet.
C9_UsableAfterFailure ==
    \A s \in AllSessions :
        /\ (pc[s] = "idle" /\ last_event[s] = "submit"
                /\ LastOutcome(s) = "failed")
             => /\ Len(messages[s]) >= 3
                /\ messages[s][Len(messages[s]) - 1]
                       = [role |-> "user", content |-> prompt[s]]
                /\ messages[s][Len(messages[s])]
                       = [role |-> "assistant",
                          content |->
                              "Sorry, an error occurred during processing."]
                /\ input_shown[s]
                /\ TotalSubmitted < MaxTurns => ENABLED Submit(s)
        /\ pc[s] = "h_save"
             => /\ original_google_api_key_env[s] = None
                /\ exc[s] = NoException
                /\ result[s].raw = None
                /\ ai_response[s] = None
                /\ kickoffs[s] = 0
                /\ ~st_error_shown[s]

\* C9 witness: the turn after a failed one got a result from its own remote
\* call.
C9_Witness ==
    /\ Returned(1)
    /\ outcomes[1] = << "failed", "ok" >>
    /\ kickoffs[1] = 1
    /\ remote_calls[1] >= 1

\* C10: an invocation makes one remote call when setup succeeded and none
\* otherwise, never two; a session never has more remote calls than
\* submitted utterances.
C10_OneCall ==
    \A s \in AllSessions :
        /\ kickoffs[s] <= 1
        /\ remote_calls[s] <= submitted[s]
        /\ Returned(s) => kickoffs[s] = IF setup_ok[s] THEN 1 ELSE 0
        /\ Returned(s) => Len(outcomes[s]) = submitted[s]

\* C10 witness: the kickoff raised, and the invocation returned after that
\* single call.
C10_Witness ==
    /\ Returned(1)
    /\ setup_ok[1]
    /\ LastOutcome(1) = "failed"
    /\ kickoffs[1] = 1
    /\ submitted[1] = 2
    /\ remote_calls[1] <= 2

====
